---- MODULE Spec2Model ----
(***************************************************************************)
(* Model of the Mjolnir Synapse antispam module: the glob compiler         *)
(* (matching.py), rule normalisation (list_rule.py), the per-room ban list *)
(* and its rebuild (ban_list.py), and the decision engine that owns the    *)
(* lists.  Python strings are TLA+ strings; a Python value that may be     *)
(* None or of another type is a tagged record [t, v].                      *)
(***************************************************************************)
EXTENDS Integers, Sequences, FiniteSets, TLC

\* ------------------------------------------------------------------------
\* Python values
\* ------------------------------------------------------------------------
Str(s) == [t |-> "str", v |-> s]
None == [t |-> "None", v |-> ""]
Int5 == [t |-> "int", v |-> "5"]

\* ------------------------------------------------------------------------
\* list_rule.py : constants
\* ------------------------------------------------------------------------
RECOMMENDATION_BAN == "m.ban"
RECOMMENDATION_BAN_TYPES == <<RECOMMENDATION_BAN, "org.matrix.mjolnir.ban">>
RULE_USER == "m.room.rule.user"
USER_RULE_TYPES == <<RULE_USER, "org.matrix.mjolnir.rule.user">>
RULE_ROOM == "m.room.rule.room"
ROOM_RULE_TYPES == <<RULE_ROOM, "org.matrix.mjolnir.rule.room">>
RULE_SERVER == "m.room.rule.server"
SERVER_RULE_TYPES == <<RULE_SERVER, "org.matrix.mjolnir.rule.server">>
RULE_REGISTRATION_EMAIL == "m.room.rule.registration.email"
REGISTRATION_EMAIL_RULE_TYPES ==
    <<RULE_REGISTRATION_EMAIL, "org.matrix.mjolnir.rule.registration.email">>
RULE_REGISTRATION_IP == "m.room.rule.registration.ip"
REGISTRATION_IP_RULE_TYPES ==
    <<RULE_REGISTRATION_IP, "org.matrix.mjolnir.rule.registration.ip">>
ALL_RULE_TYPES ==
    USER_RULE_TYPES \o ROOM_RULE_TYPES \o SERVER_RULE_TYPES
        \o REGISTRATION_EMAIL_RULE_TYPES \o REGISTRATION_IP_RULE_TYPES

\* Python's `x in list`
In(x, list) == \E i \in 1..Len(list) : list[i] = x

\* ------------------------------------------------------------------------
\* matching.py : glob_to_regex
\* ------------------------------------------------------------------------
\* A compiled pattern is the sequence of its tokens between \A and \Z:
\*   [k |-> "lit", s, q]      re.escape(chunk), the literal text s
\*   [k |-> "atleast", s, q]  .{q,}
\*   [k |-> "exactly", s, q]  .{q}
CharAt(s, i) == SubSeq(s, i, i)
Drop(s, n) == SubSeq(s, n + 1, Len(s))
Take(s, n) == SubSeq(s, 1, n)

\* _WILDCARD_RUN = re.compile(r"([\?\*]+)")
IsWildcard(c) == c \in {"?", "*"}

\* length of the maximal run at the start of s of characters that are
\* (wild = TRUE) or are not (wild = FALSE) wildcards: one chunk of split()
RECURSIVE RunLength(_, _)
RunLength(s, wild) ==
    IF s = "" \/ IsWildcard(CharAt(s, 1)) # wild THEN 0
    ELSE 1 + RunLength(Drop(s, 1), wild)

\* chunk.count(c)
RECURSIVE Count(_, _)
Count(s, c) ==
    IF s = "" THEN 0
    ELSE (IF CharAt(s, 1) = c THEN 1 ELSE 0) + Count(Drop(s, 1), c)

\* "Wildcards? Simplify."
WildcardToken(chunk) ==
    IF Count(chunk, "*") > 0
    THEN [k |-> "atleast", s |-> "", q |-> Count(chunk, "?")]
    ELSE [k |-> "exactly", s |-> "", q |-> Count(chunk, "?")]

\* "No wildcards? re.escape()"
LiteralToken(chunk) == [k |-> "lit", s |-> chunk, q |-> 0]

RECURSIVE Chunks(_)
Chunks(glob) ==
    IF glob = "" THEN <<>>
    ELSE IF IsWildcard(CharAt(glob, 1))
         THEN LET n == RunLength(glob, TRUE)
              IN  <<WildcardToken(Take(glob, n))>> \o Chunks(Drop(glob, n))
         ELSE LET n == RunLength(glob, FALSE)
              IN  <<LiteralToken(Take(glob, n))>> \o Chunks(Drop(glob, n))

glob_to_regex(glob) == Chunks(glob)

\* re.IGNORECASE, over the letters the model's strings use
LowerChar(c) ==
    CASE c = "A" -> "a"
      [] c = "B" -> "b"
      [] c = "X" -> "x"
      [] c = "Y" -> "y"
      [] OTHER -> c

RECURSIVE Lower(_)
Lower(s) == IF s = "" THEN "" ELSE LowerChar(CharAt(s, 1)) \o Lower(Drop(s, 1))

\* `.` without re.DOTALL matches any character except a line break
RECURSIVE NoLineBreak(_)
NoLineBreak(s) ==
    IF s = "" THEN TRUE ELSE CharAt(s, 1) # "\n" /\ NoLineBreak(Drop(s, 1))

\* Pattern.match(victim) for the anchored pattern \A tokens \Z
RECURSIVE RegexMatch(_, _)
RegexMatch(regex, s) ==
    IF regex = <<>> THEN s = ""
    ELSE LET tok == Head(regex)
             rest == Tail(regex)
         IN  CASE tok.k = "lit" ->
                    /\ Len(s) >= Len(tok.s)
                    /\ Lower(Take(s, Len(tok.s))) = Lower(tok.s)
                    /\ RegexMatch(rest, Drop(s, Len(tok.s)))
               [] tok.k = "exactly" ->
                    /\ Len(s) >= tok.q
                    /\ NoLineBreak(Take(s, tok.q))
                    /\ RegexMatch(rest, Drop(s, tok.q))
               [] OTHER ->
                    \E n \in tok.q..Len(s) :
                        /\ NoLineBreak(Take(s, n))
                        /\ RegexMatch(rest, Drop(s, n))

\* ------------------------------------------------------------------------
\* list_rule.py : normalisation and ListRule
\* ------------------------------------------------------------------------
\* a bug: the recommendation is stored as it was spelled
recommendation_kept_as_spelled(recommendation) == recommendation

\* a bug: the spelling of the unstable prefix is not recognised
recommendation_stable_only(recommendation) ==
    IF recommendation = Str(RECOMMENDATION_BAN) THEN Str(RECOMMENDATION_BAN) ELSE None

recommendation_to_stable(recommendation) ==
    IF recommendation.t = "str" /\ In(recommendation.v, RECOMMENDATION_BAN_TYPES)
    THEN Str(RECOMMENDATION_BAN)
    ELSE None

\* a bug: the type is stored as it was spelled
rule_type_kept_as_spelled(rule) ==
    IF In(rule, ALL_RULE_TYPES) THEN Str(rule) ELSE None

rule_type_to_stable(rule) ==
    IF In(rule, USER_RULE_TYPES) THEN Str(RULE_USER)
    ELSE IF In(rule, ROOM_RULE_TYPES) THEN Str(RULE_ROOM)
    ELSE IF In(rule, SERVER_RULE_TYPES) THEN Str(RULE_SERVER)
    ELSE IF In(rule, REGISTRATION_EMAIL_RULE_TYPES) THEN Str(RULE_REGISTRATION_EMAIL)
    ELSE IF In(rule, REGISTRATION_IP_RULE_TYPES) THEN Str(RULE_REGISTRATION_IP)
    ELSE None

\* glob_to_regex raises TypeError when handed anything but a string
ListRuleRaises(entity) == entity.t # "str"

\* ListRule.__init__ (entity is a string here)
ListRule(entity, action, reason, kind) ==
    [entity |-> entity,
     regex  |-> glob_to_regex(entity.v),
     action |-> recommendation_to_stable(action),
     reason |-> reason,
     kind   |-> rule_type_to_stable(kind)]

\* ListRule.matches
matches(rule, victim) == RegexMatch(rule.regex, victim)

\* ------------------------------------------------------------------------
\* Bounds of the model
\* ------------------------------------------------------------------------
\* events in a list room's state when the module is loaded
MaxSnapshot == 2
\* rebuilds waiting on their fetch at the same time
MaxPending == 2
\* rebuilds started over a run
MaxBuilds == 2

\* ------------------------------------------------------------------------
\* The events of the model
\* ------------------------------------------------------------------------
RoomA == "!listA:x"
RoomB == "!listB:x"
\* config "ban_lists": the tracked list rooms
list_room_ids == <<RoomA, RoomB>>

Event(id, room, type, key, entity, recommendation, reason) ==
    [event_id |-> id, room_id |-> room, type |-> type, state_key |-> key,
     content |-> [entity |-> entity, recommendation |-> recommendation,
                  reason |-> reason]]

\* a user ban
EvBanA == Event("$1", RoomA, RULE_USER, Str("k1"), Str("@a:*"), Str("m.ban"), Str("spam"))
\* the same type and state key as EvBanA, sent later: replaces it
EvBanB == Event("$2", RoomA, RULE_USER, Str("k1"), Str("@b:y"),
                Str("org.matrix.mjolnir.ban"), Str("spam"))
\* legacy type, a recommendation that is no ban, a glob matching "@a:x"
EvAllowA == Event("$3", RoomA, "org.matrix.mjolnir.rule.user", Str("k2"), Str("@A:X"),
                  Str("m.allow"), Str("fine"))
EvRoom == Event("$4", RoomA, RULE_ROOM, Str("k1"), Str("!abc:x"), Str("m.ban"), Str("bad"))
EvServer == Event("$5", RoomA, "org.matrix.mjolnir.rule.server", Str("k1"), Str("x"),
                  Str("m.ban"), Str("bad"))
\* content without "reason"
EvNoReason == Event("$6", RoomA, RULE_USER, Str("k3"), Str("@b:y"), Str("m.ban"), None)
\* content whose "entity" is a number
EvIntEntity == Event("$7", RoomA, RULE_USER, Str("k4"), Int5, Str("m.ban"), Str("spam"))
\* no state key: a message event
EvMessage == Event("$8", RoomA, RULE_USER, None, Str("@b:y"), Str("m.ban"), Str("spam"))
EvEmail == Event("$9", RoomA, RULE_REGISTRATION_EMAIL, Str("k1"), Str("*@x"),
                 Str("m.ban"), Str("spam"))
\* emptied content for the state key of EvBanA: the rule is removed
EvRemoveA == Event("$10", RoomA, RULE_USER, Str("k1"), None, None, None)
EvBanInB == Event("$11", RoomB, RULE_USER, Str("k1"), Str("@*:x"), Str("m.ban"), Str("spam"))

\* events a list room may hold when the module is loaded, in the order the
\* store returns them
StoredEvents == <<EvAllowA, EvBanA, EvNoReason, EvMessage, EvRoom, EvIntEntity,
                  EvServer, EvEmail, EvBanInB>>
\* events the homeserver hands to the module while it runs
LiveEvents == {EvBanB, EvRemoveA, EvMessage}

\* what the decision queries are asked about
Users == {"@a:x", "@b:y"}
RoomIds == {"!abc:x", "!ok:y"}

\* ------------------------------------------------------------------------
\* State
\* ------------------------------------------------------------------------
VARIABLES
    rooms_to_lists,   \* the engine's dict: its keys, in insertion order
    ban_list,         \* ban_list[room]: the three lists of that room's BanList
    origin,           \* history: the event each rule of ban_list was built from
    built,            \* history: ban_list[room] when its last rebuild completed
    store,            \* store[room]: the state events of the room, as fetched
    pending,          \* runs of build() suspended at the fetch (line 42)
    cur,              \* the run of build() the reactor is executing, or None
    reply,            \* what the last callback returned
    enforce_invites,  \* config
    delivered,        \* ids of the live events handed over so far
    nbuilds,          \* rebuilds started
    call,             \* the last call of a function of list_rule.py or matching.py
    result,           \* what that call, or the last check of an event, returned
    threshold,        \* MessageMaxLength.threshold
    rooms,            \* MessageMaxLength.rooms
    remote_servers,   \* MessageMaxLength.remote_servers
    code_checks,      \* AntiSpam: its six lists of compiled checks
    update            \* AntiSpam: the run of _update_rules in flight, or None

\* the state of the ban lists and their engine
engine_vars == <<rooms_to_lists, ban_list, origin, built, store, pending, cur, reply,
                 enforce_invites, delivered, nbuilds>>
\* the state of the other objects of the module
aside_vars == <<call, result, threshold, rooms, remote_servers, code_checks, update>>

vars == <<rooms_to_lists, ban_list, origin, built, store, pending, cur, reply,
          enforce_invites, delivered, nbuilds,
          call, result, threshold, rooms, remote_servers, code_checks, update>>

\* ------------------------------------------------------------------------
\* ban_list.py : BanList
\* ------------------------------------------------------------------------
\* BanList.__init__, lines 34-36
EmptyLists == [server_rules |-> <<>>, user_rules |-> <<>>, room_rules |-> <<>>]

\* a bug: the user rules are not cleared
KeepUserRules(bl) == bl

\* lines 45-47
ClearServerRules(bl) == [bl EXCEPT !.server_rules = <<>>]
ClearUserRules(bl) == [bl EXCEPT !.user_rules = <<>>]
ClearRoomRules(bl) == [bl EXCEPT !.room_rules = <<>>]

\* a bug: the lists are attributes of the class, shared by every BanList
SetListsOfClass(lists, room, bl) == [r \in DOMAIN lists |-> bl]

\* `self.<list> = ...`: the lists are attributes of the room's own BanList
SetLists(lists, room, bl) == [lists EXCEPT ![room] = bl]

\* line 52
NoStateKey(event) == event.state_key = None

\* a bug: `==` for `!=` in the comparison of the event ids
SupersededSameId(event, with_event) ==
    /\ with_event # None
    /\ with_event.type = event.type
    /\ with_event.state_key = event.state_key
    /\ with_event.event_id = event.event_id

\* a bug: only a with_event that has the three fields replaces an event
SupersededByValid(event, with_event) ==
    /\ with_event # None
    /\ with_event.type = event.type
    /\ with_event.state_key = event.state_key
    /\ with_event.event_id # event.event_id
    /\ with_event.content.entity # None
    /\ with_event.content.recommendation # None
    /\ with_event.content.reason # None

\* lines 57-67: the event is replaced by with_event
Superseded(event, with_event) ==
    /\ with_event # None
    /\ with_event.type = event.type
    /\ with_event.state_key = event.state_key
    /\ with_event.event_id # event.event_id

\* a bug: the reason is not checked
InvalidButForReason(content) ==
    \/ content.entity = None
    \/ content.recommendation = None

\* lines 69-73
Invalid(content) ==
    \/ content.entity = None
    \/ content.recommendation = None
    \/ content.reason = None

\* lines 82-87: which list the rule of an event of this type goes to
ListFor(event_type) ==
    IF In(event_type, USER_RULE_TYPES) THEN "user_rules"
    ELSE IF In(event_type, ROOM_RULE_TYPES) THEN "room_rules"
    ELSE IF In(event_type, SERVER_RULE_TYPES) THEN "server_rules"
    ELSE ""

\* a bug: list.insert(0, rule)
InsertRuleFirst(bl, rule, event_type) ==
    IF ListFor(event_type) = "" THEN bl
    ELSE [bl EXCEPT ![ListFor(event_type)] = <<rule>> \o @]

\* lines 82-87: list.append(rule)
AppendRule(bl, rule, event_type) ==
    IF ListFor(event_type) = "" THEN bl
    ELSE [bl EXCEPT ![ListFor(event_type)] = Append(@, rule)]

\* lines 49-73: the iteration `continue`s
Skipped(event, with_event) ==
    \/ NoStateKey(event)
    \/ Superseded(event, with_event)
    \/ Invalid(event.content)

\* lines 79-81: ListRule(...) raises
Raises(event, with_event) ==
    /\ ~Skipped(event, with_event)
    /\ ListRuleRaises(event.content.entity)

\* lines 48-87: one iteration of the loop that does not raise
LoopBody(bl, event, with_event) ==
    IF Skipped(event, with_event) THEN bl
    ELSE AppendRule(bl,
                    ListRule(event.content.entity, event.content.recommendation,
                             event.content.reason, event.type),
                    event.type)

\* the list an iteration appends to ("" when it appends to none)
Appended(event, with_event) ==
    IF Skipped(event, with_event) \/ Raises(event, with_event) THEN ""
    ELSE ListFor(event.type)

\* a bug: with_event is put before the fetched events
EventsOfNewFirst(snapshot, with_event) ==
    IF with_event # None THEN <<with_event>> \o snapshot ELSE snapshot

\* lines 43-44
EventsOf(snapshot, with_event) ==
    IF with_event # None THEN Append(snapshot, with_event) ELSE snapshot

\* ------------------------------------------------------------------------
\* The decision engine (the owner of the BanLists)
\* ------------------------------------------------------------------------
\* the rules of one kind of every list, in the order the queries scan them
RECURSIVE RulesOf(_, _, _)
RulesOf(ids, lists, part) ==
    IF ids = <<>> THEN <<>>
    ELSE lists[Head(ids)][part] \o RulesOf(Tail(ids), lists, part)

\* the first rule that matches decides
RECURSIVE FirstMatchBans(_, _)
FirstMatchBans(rules, victim) ==
    IF rules = <<>> THEN FALSE
    ELSE IF matches(Head(rules), victim)
         THEN Head(rules).action = Str(RECOMMENDATION_BAN)
         ELSE FirstMatchBans(Tail(rules), victim)

is_user_banned(user_id) ==
    FirstMatchBans(RulesOf(rooms_to_lists, ban_list, "user_rules"), user_id)
is_room_banned(room_id) ==
    FirstMatchBans(RulesOf(rooms_to_lists, ban_list, "room_rules"), room_id)
is_server_banned(server_name) ==
    FirstMatchBans(RulesOf(rooms_to_lists, ban_list, "server_rules"), server_name)

\* UserID.from_string(user_id).domain: what follows the first ":"
RECURSIVE DomainOf(_)
DomainOf(user_id) ==
    IF user_id = "" THEN ""
    ELSE IF CharAt(user_id, 1) = ":" THEN Drop(user_id, 1)
    ELSE DomainOf(Drop(user_id, 1))

decide_invite(inviter, invitee, room_id) ==
    IF ~enforce_invites THEN TRUE
    ELSE IF is_user_banned(inviter) THEN FALSE
    ELSE IF is_room_banned(room_id) THEN FALSE
    ELSE IF is_server_banned(DomainOf(inviter)) THEN FALSE
    ELSE TRUE

\* a policy record of a tracked room
IsPolicyRecord(event) ==
    /\ event.state_key # None
    /\ In(event.type, ALL_RULE_TYPES)
    /\ In(event.room_id, list_room_ids)

\* ------------------------------------------------------------------------
\* Initial state
\* ------------------------------------------------------------------------
Ids(events) == {events[i].event_id : i \in 1..Len(events)}

\* a room's state holds one event for a type and state key
IsState(events) ==
    \A i, j \in 1..Len(events) :
        i # j => /\ events[i].event_id # events[j].event_id
                 /\ \/ events[i].type # events[j].type
                    \/ events[i].state_key # events[j].state_key
                    \/ events[i].state_key = None

\* the subsequences of q of at most n elements
RECURSIVE SubSeqs(_, _)
SubSeqs(q, n) ==
    IF q = <<>> \/ n = 0 THEN {<<>>}
    ELSE SubSeqs(Tail(q), n) \cup {<<Head(q)>> \o p : p \in SubSeqs(Tail(q), n - 1)}

Snapshots(room) ==
    {q \in SubSeqs(SelectSeq(StoredEvents, LAMBDA e : e.room_id = room), MaxSnapshot) :
        IsState(q)}

\* AntiSpam.__init__, lines 37-42
NoChecks == [spam |-> <<>>, invites |-> <<>>, profiles |-> <<>>, createRoom |-> <<>>,
             createAlias |-> <<>>, publishRoom |-> <<>>]

\* the module is loaded with the list rooms in some state
InitBanLists ==
    /\ rooms_to_lists = <<>>
    /\ ban_list = <<>>
    /\ origin = <<>>
    /\ built = <<>>
    /\ store \in {[r \in {RoomA, RoomB} |-> IF r = RoomA THEN a ELSE b] :
                     a \in Snapshots(RoomA), b \in Snapshots(RoomB)}
    /\ pending = <<>>
    /\ cur = None
    /\ reply = FALSE
    /\ enforce_invites \in BOOLEAN
    /\ delivered = {}
    /\ nbuilds = 0

\* no function of list_rule.py or matching.py has been called yet; the
\* functions are pure, so the calls are looked at one by one
InitCalls == call = None /\ result = None

\* MessageMaxLength.__init__ on an empty config, lines 28-30
InitNoMaxLength == threshold = None /\ rooms = {} /\ remote_servers = FALSE

\* AntiSpam.__init__, lines 37-42; the looping call has not fired
InitAntiSpam == code_checks = NoChecks /\ update = None

Init == InitBanLists /\ InitCalls /\ InitNoMaxLength /\ InitAntiSpam

\* no list room is configured and none has state
InitNoBanLists ==
    /\ rooms_to_lists = <<>>
    /\ ban_list = <<>>
    /\ origin = <<>>
    /\ built = <<>>
    /\ store = [r \in {RoomA, RoomB} |-> <<>>]
    /\ pending = <<>>
    /\ cur = None
    /\ reply = FALSE
    /\ enforce_invites = TRUE
    /\ delivered = {}
    /\ nbuilds = 0

\* ------------------------------------------------------------------------
\* ban_list.py : build()
\* ------------------------------------------------------------------------
\* build(with_event) up to the yield of line 42: the fetch is issued
Suspended(room, with_event) == [room_id |-> room, with_event |-> with_event]

CanBuild(n) == Len(pending) + n <= MaxPending /\ nbuilds + n <= MaxBuilds

Created(room) == In(room, rooms_to_lists)

\* get_list_for_room on a room with no BanList yet: BanList.__init__, whose
\* line 37 starts the first rebuild
Create(room) ==
    /\ cur = None
    /\ ~Created(room)
    /\ CanBuild(1)
    /\ rooms_to_lists' = Append(rooms_to_lists, room)
    /\ ban_list' = (room :> EmptyLists) @@ ban_list
    /\ origin' = (room :> EmptyLists) @@ origin
    /\ built' = (room :> EmptyLists) @@ built
    /\ pending' = Append(pending, Suspended(room, None))
    /\ nbuilds' = nbuilds + 1
    /\ UNCHANGED <<store, cur, reply, enforce_invites, delivered>>
    /\ UNCHANGED aside_vars

\* build(): a full rebuild of an existing list
Build(room) ==
    /\ cur = None
    /\ Created(room)
    /\ CanBuild(1)
    /\ pending' = Append(pending, Suspended(room, None))
    /\ nbuilds' = nbuilds + 1
    /\ UNCHANGED <<rooms_to_lists, ban_list, origin, built, store, cur, reply,
                   enforce_invites, delivered>>
    /\ UNCHANGED aside_vars

\* the homeserver hands a new event to the module before it is stored:
\* a policy record of a tracked room starts build(with_event=event) on the
\* room's list and is answered "handled"; any other event is no record
RouteRecord(event) ==
    /\ cur = None
    /\ event.event_id \notin delivered
    /\ event.event_id \notin Ids(store[event.room_id])
    /\ IF ~IsPolicyRecord(event)
       THEN /\ reply' = FALSE
            /\ UNCHANGED <<rooms_to_lists, ban_list, origin, built, pending, nbuilds,
                           delivered>>
       ELSE /\ reply' = TRUE
            /\ delivered' = delivered \cup {event.event_id}
            /\ IF Created(event.room_id)
               THEN /\ CanBuild(1)
                    /\ pending' = Append(pending, Suspended(event.room_id, event))
                    /\ nbuilds' = nbuilds + 1
                    /\ UNCHANGED <<rooms_to_lists, ban_list, origin, built>>
               ELSE \* the BanList is made first, and line 37 starts a rebuild
                    /\ CanBuild(2)
                    /\ rooms_to_lists' = Append(rooms_to_lists, event.room_id)
                    /\ ban_list' = (event.room_id :> EmptyLists) @@ ban_list
                    /\ origin' = (event.room_id :> EmptyLists) @@ origin
                    /\ built' = (event.room_id :> EmptyLists) @@ built
                    /\ pending' = pending \o <<Suspended(event.room_id, None),
                                               Suspended(event.room_id, event)>>
                    /\ nbuilds' = nbuilds + 2
    /\ UNCHANGED <<store, cur, enforce_invites>>
    /\ UNCHANGED aside_vars

\* the homeserver stores a delivered state event: it replaces the room's
\* event of the same type and state key
Replaces(new, old) == new.type = old.type /\ new.state_key = old.state_key

Persist(event) ==
    /\ cur = None
    /\ event.event_id \in delivered
    /\ event.state_key # None
    /\ event.event_id \notin Ids(store[event.room_id])
    /\ store' = [store EXCEPT ![event.room_id] =
                    Append(SelectSeq(@, LAMBDA e : ~Replaces(event, e)), event)]
    /\ UNCHANGED <<rooms_to_lists, ban_list, origin, built, pending, cur, reply,
                   enforce_invites, delivered, nbuilds>>
    /\ UNCHANGED aside_vars

Remove(q, k) == SubSeq(q, 1, k - 1) \o SubSeq(q, k + 1, Len(q))

\* the fetch fails: the yield of line 42 raises, run() ends, and
\* run_as_background_process logs the exception
FetchFails(k) ==
    /\ cur = None
    /\ k \in 1..Len(pending)
    /\ pending' = Remove(pending, k)
    /\ UNCHANGED <<rooms_to_lists, ban_list, origin, built, store, cur, reply,
                   enforce_invites, delivered, nbuilds>>
    /\ UNCHANGED aside_vars

\* get_relevant_state_events, lines 91-94: the state events of the room
get_relevant_state_events(room) == store[room]

\* lines 42-44: the fetch returns the room's state and run() goes on; from
\* here to its end run() does not yield, so the reactor runs nothing else
Resume(k) ==
    /\ cur = None
    /\ k \in 1..Len(pending)
    /\ cur' = [room_id |-> pending[k].room_id,
               with_event |-> pending[k].with_event,
               snapshot |-> get_relevant_state_events(pending[k].room_id),
               events |-> EventsOf(get_relevant_state_events(pending[k].room_id),
                                   pending[k].with_event),
               pc |-> "server_rules",
               i |-> 1,
               before |-> ban_list[pending[k].room_id]]
    /\ pending' = Remove(pending, k)
    /\ UNCHANGED <<rooms_to_lists, ban_list, origin, built, store, reply,
                   enforce_invites, delivered, nbuilds>>
    /\ UNCHANGED aside_vars

Running == cur # None

\* line 45
ClearServer ==
    /\ Running /\ cur.pc = "server_rules"
    /\ ban_list' = SetLists(ban_list, cur.room_id, ClearServerRules(ban_list[cur.room_id]))
    /\ origin' = [origin EXCEPT ![cur.room_id].server_rules = <<>>]
    /\ cur' = [cur EXCEPT !.pc = "user_rules"]
    /\ UNCHANGED <<rooms_to_lists, built, store, pending, reply,
                   enforce_invites, delivered, nbuilds>>
    /\ UNCHANGED aside_vars

\* line 46
ClearUser ==
    /\ Running /\ cur.pc = "user_rules"
    /\ ban_list' = SetLists(ban_list, cur.room_id, ClearUserRules(ban_list[cur.room_id]))
    /\ origin' = [origin EXCEPT ![cur.room_id].user_rules = <<>>]
    /\ cur' = [cur EXCEPT !.pc = "room_rules"]
    /\ UNCHANGED <<rooms_to_lists, built, store, pending, reply,
                   enforce_invites, delivered, nbuilds>>
    /\ UNCHANGED aside_vars

\* line 47
ClearRoom ==
    /\ Running /\ cur.pc = "room_rules"
    /\ ban_list' = SetLists(ban_list, cur.room_id, ClearRoomRules(ban_list[cur.room_id]))
    /\ origin' = [origin EXCEPT ![cur.room_id].room_rules = <<>>]
    /\ cur' = [cur EXCEPT !.pc = "loop"]
    /\ UNCHANGED <<rooms_to_lists, built, store, pending, reply,
                   enforce_invites, delivered, nbuilds>>
    /\ UNCHANGED aside_vars

\* lines 48-87: one iteration
Iterate ==
    /\ Running /\ cur.pc = "loop" /\ cur.i <= Len(cur.events)
    /\ ~Raises(cur.events[cur.i], cur.with_event)
    /\ ban_list' = SetLists(ban_list, cur.room_id,
                            LoopBody(ban_list[cur.room_id], cur.events[cur.i],
                                     cur.with_event))
    /\ origin' = IF Appended(cur.events[cur.i], cur.with_event) = "" THEN origin
                 ELSE [origin EXCEPT
                          ![cur.room_id][Appended(cur.events[cur.i], cur.with_event)] =
                              Append(@, cur.events[cur.i].event_id)]
    /\ cur' = [cur EXCEPT !.i = @ + 1]
    /\ UNCHANGED <<rooms_to_lists, built, store, pending, reply,
                   enforce_invites, delivered, nbuilds>>
    /\ UNCHANGED aside_vars

\* lines 79-81: ListRule raises; the exception leaves run() and
\* run_as_background_process logs it
IterateRaises ==
    /\ Running /\ cur.pc = "loop" /\ cur.i <= Len(cur.events)
    /\ Raises(cur.events[cur.i], cur.with_event)
    /\ cur' = None
    /\ UNCHANGED <<rooms_to_lists, ban_list, origin, built, store, pending, reply,
                   enforce_invites, delivered, nbuilds>>
    /\ UNCHANGED aside_vars

\* line 48: the loop is over and run() returns
Return ==
    /\ Running /\ cur.pc = "loop" /\ cur.i > Len(cur.events)
    /\ cur' = None
    /\ built' = [built EXCEPT ![cur.room_id] = ban_list[cur.room_id]]
    /\ UNCHANGED <<rooms_to_lists, ban_list, origin, store, pending, reply,
                   enforce_invites, delivered, nbuilds>>
    /\ UNCHANGED aside_vars

\* ------------------------------------------------------------------------
\* The callbacks of the homeserver
\* ------------------------------------------------------------------------
IsUserBanned(user_id) ==
    /\ cur = None
    /\ reply' = is_user_banned(user_id)
    /\ UNCHANGED <<rooms_to_lists, ban_list, origin, built, store, pending, cur,
                   enforce_invites, delivered, nbuilds>>
    /\ UNCHANGED aside_vars

DecideInvite(inviter, invitee, room_id) ==
    /\ cur = None
    /\ reply' = decide_invite(inviter, invitee, room_id)
    /\ UNCHANGED <<rooms_to_lists, ban_list, origin, built, store, pending, cur,
                   enforce_invites, delivered, nbuilds>>
    /\ UNCHANGED aside_vars

Next ==
    \/ \E room \in {RoomA, RoomB} : Create(room)
    \/ \E room \in {RoomA, RoomB} : Build(room)
    \/ \E event \in LiveEvents : RouteRecord(event)
    \/ \E event \in LiveEvents : Persist(event)
    \/ \E k \in 1..MaxPending : FetchFails(k)
    \/ \E k \in 1..MaxPending : Resume(k)
    \/ ClearServer
    \/ ClearUser
    \/ ClearRoom
    \/ Iterate
    \/ IterateRaises
    \/ Return
    \/ \E u \in Users : IsUserBanned(u)
    \/ \E u \in Users, v \in Users, r \in RoomIds : DecideInvite(u, v, r)

Spec == Init /\ [][Next]_vars

\* the reactor goes on with the run of build() it is executing, which does
\* not yield after line 42; and a fetch that was issued returns
Fairness ==
    /\ WF_vars(ClearServer \/ ClearUser \/ ClearRoom \/ Iterate \/ IterateRaises \/ Return)
    /\ WF_vars(\E k \in 1..MaxPending : Resume(k))

SpecFair == Spec /\ Fairness

\* ------------------------------------------------------------------------
\* list_rule.py and matching.py called on their own
\* ------------------------------------------------------------------------
\* the longest glob and the longest candidate string
MaxGlob == 3
MaxVictim == 3

\* the strings of at most n characters of the alphabet
RECURSIVE Strings(_, _)
Strings(alphabet, n) ==
    IF n = 0 THEN {""}
    ELSE LET shorter == Strings(alphabet, n - 1)
         IN  shorter \cup {c \o t : c \in alphabet, t \in shorter}

Globs == Strings({"a", "?", "*"}, MaxGlob) \cup {"?**?**?"}
Victims == Strings({"a", "B", "\n"}, MaxVictim) \cup {"ab", "abc", "abcd"}

\* spellings of content.recommendation and of event.type
Recommendations == {"m.ban", "org.matrix.mjolnir.ban", "m.allow", "M.BAN", "ban", ""}
Types == {ALL_RULE_TYPES[i] : i \in 1..Len(ALL_RULE_TYPES)}
             \cup {"m.room.rule.unknown", "M.ROOM.RULE.USER", "m.room.message", ""}
Entities == {Str("*"), Str("@a:*"), Str(""), Int5}

\* what a call that raised TypeError leaves
TypeError == [t |-> "TypeError", v |-> ""]

\* ListRule(entity, action, reason, kind)
MakeRule(entity, action, reason, kind) ==
    /\ call = None
    /\ call' = [op |-> "ListRule", entity |-> entity, action |-> action, kind |-> kind]
    /\ result' = IF ListRuleRaises(entity) THEN TypeError
                 ELSE ListRule(entity, Str(action), reason, kind)
    /\ UNCHANGED <<engine_vars, threshold, rooms, remote_servers, code_checks, update>>

\* glob_to_regex(glob).match(victim)
Match(glob, victim) ==
    /\ call = None
    /\ call' = [op |-> "match", glob |-> glob, victim |-> victim]
    /\ result' = RegexMatch(glob_to_regex(glob), victim)
    /\ UNCHANGED <<engine_vars, threshold, rooms, remote_servers, code_checks, update>>

InitFunctions == InitNoBanLists /\ InitCalls /\ InitNoMaxLength /\ InitAntiSpam

NextFunctions ==
    \/ \E e \in Entities, a \in Recommendations, k \in Types : MakeRule(e, a, Str("spam"), k)
    \/ \E g \in Globs, v \in Victims : Match(g, v)

SpecFunctions == InitFunctions /\ [][NextFunctions]_vars

\* ------------------------------------------------------------------------
\* antispam.py : AntiSpam._update_rules
\* ------------------------------------------------------------------------
\* the keys of resp['checks'], in the order lines 60-65 read them
CheckKeys == <<"spam", "invites", "profiles", "createRoom", "createAlias", "publishRoom">>
CheckKeySet == {CheckKeys[i] : i \in 1..Len(CheckKeys)}

\* rules as the rule server sends them; the search of the last is no
\* expression, so compile() raises SyntaxError on it
RulesV1 == <<[search |-> "room_id", pattern |-> "spam"]>>
RulesV2 == <<[search |-> "room_id", pattern |-> "bad"],
             [search |-> "inviter_user_id", pattern |-> "evil"]>>
RulesBad == <<[search |-> "(", pattern |-> "x"]>>
CompileRaises(search) == search = "("

\* the responses of the rule server: every key with the rules of one
\* version, but for one key that may be missing and one whose rules may
\* not compile; or a response without 'checks'
NoChecksKey == [error |-> "not found"]
Responses ==
    {[checks |-> [k \in CheckKeySet \ missing |->
                     IF k \in bad THEN RulesBad ELSE rules]] :
        rules \in {RulesV1, RulesV2},
        missing \in {{}, {"spam"}, {"invites"}, {"publishRoom"}},
        bad \in {{}, {"profiles"}}}
    \cup {NoChecksKey}

\* _compile_rules, lines 73-77, on rules that compile
compile_rules(rules) ==
    [i \in 1..Len(rules) |->
        [search |-> [code |-> rules[i].search], pattern |-> rules[i].pattern]]

\* the looping call fires: run() is started and awaits get_json (line 50)
UpdateRules ==
    /\ update = None
    /\ update' = [pc |-> "get_json", resp |-> None, i |-> 0, before |-> code_checks]
    /\ UNCHANGED <<engine_vars, call, result, threshold, rooms, remote_servers,
                   code_checks>>

\* get_json raises: the except of line 68 logs it
GetJsonFails ==
    /\ update # None /\ update.pc = "get_json"
    /\ update' = None
    /\ UNCHANGED <<engine_vars, call, result, threshold, rooms, remote_servers,
                   code_checks>>

\* get_json returns; from here run() does not await
GetJsonReturns(resp) ==
    /\ update # None /\ update.pc = "get_json"
    /\ update' = [update EXCEPT !.pc = "assign", !.resp = resp, !.i = 1]
    /\ UNCHANGED <<engine_vars, call, result, threshold, rooms, remote_servers,
                   code_checks>>

Assigning == update # None /\ update.pc = "assign" /\ update.i <= Len(CheckKeys)

\* the right-hand side of the assignment of lines 60-65 raises: KeyError on
\* resp['checks'] or on its key, SyntaxError in compile()
RaisesOn(resp, key) ==
    IF "checks" \notin DOMAIN resp THEN TRUE
    ELSE IF key \notin DOMAIN resp.checks THEN TRUE
    ELSE \E j \in 1..Len(resp.checks[key]) : CompileRaises(resp.checks[key][j].search)

\* one of the assignments of lines 60-65
Assign ==
    /\ Assigning
    /\ ~RaisesOn(update.resp, CheckKeys[update.i])
    /\ code_checks' = [code_checks EXCEPT ![CheckKeys[update.i]] =
                           compile_rules(update.resp.checks[CheckKeys[update.i]])]
    /\ update' = [update EXCEPT !.i = @ + 1]
    /\ UNCHANGED <<engine_vars, call, result, threshold, rooms, remote_servers>>

\* it raises: the except of line 68 logs it and run() ends
AssignRaises ==
    /\ Assigning
    /\ RaisesOn(update.resp, CheckKeys[update.i])
    /\ update' = None
    /\ UNCHANGED <<engine_vars, call, result, threshold, rooms, remote_servers,
                   code_checks>>

\* line 67: the six lists are assigned and run() ends
Updated ==
    /\ update # None /\ update.pc = "assign" /\ update.i > Len(CheckKeys)
    /\ update' = None
    /\ UNCHANGED <<engine_vars, call, result, threshold, rooms, remote_servers,
                   code_checks>>

InitUpdates == InitNoBanLists /\ InitCalls /\ InitNoMaxLength /\ InitAntiSpam

NextUpdates ==
    \/ UpdateRules
    \/ GetJsonFails
    \/ \E resp \in Responses : GetJsonReturns(resp)
    \/ Assign
    \/ AssignRaises
    \/ Updated

SpecAntiSpam == InitUpdates /\ [][NextUpdates]_vars

\* ------------------------------------------------------------------------
\* message_max_length.py : MessageMaxLength
\* ------------------------------------------------------------------------
\* the largest configured threshold
MaxThreshold == 2

\* a configured threshold
Threshold(n) == [t |-> "int", n |-> n]

\* api.server_name
server_name == "x"

\* config: "threshold" (absent, or a length), "rooms", "remote_servers"
Thresholds == {None} \cup {Threshold(n) : n \in 0..MaxThreshold}
RoomSets == SUBSET RoomIds

\* the events checked: their sender, their room and their content.body
\* (None when the content has no body)
Bodies == {Str(b) : b \in Strings({"a"}, MaxThreshold + 1)} \cup {None}
MessageEvents == [sender : Users, room_id : RoomIds, body : Bodies]

\* event.get("content", {}).get("body", "")
BodyOf(event) == IF event.body = None THEN "" ELSE event.body.v

\* a bug: a body as long as the threshold is spam
check_event_for_spam_from_threshold(event) ==
    IF threshold = None THEN FALSE
    ELSE IF DomainOf(event.sender) = server_name \/ remote_servers
         THEN IF Len(BodyOf(event)) >= threshold.n
              THEN rooms = {} \/ event.room_id \in rooms
              ELSE FALSE
         ELSE FALSE

\* lines 33-46
check_event_for_spam(event) ==
    IF threshold = None THEN FALSE
    ELSE IF DomainOf(event.sender) = server_name \/ remote_servers
         THEN IF Len(BodyOf(event)) > threshold.n
              THEN rooms = {} \/ event.room_id \in rooms
              ELSE FALSE
         ELSE FALSE

\* the homeserver asks about an event
CheckEventForSpam(event) ==
    /\ call' = [op |-> "check_event_for_spam", event |-> event]
    /\ result' = check_event_for_spam(event)
    /\ UNCHANGED <<engine_vars, threshold, rooms, remote_servers, code_checks, update>>

\* MessageMaxLength.__init__, lines 28-30, on any config
InitMaxLength ==
    /\ threshold \in Thresholds
    /\ rooms \in RoomSets
    /\ remote_servers \in BOOLEAN

InitLengths == InitNoBanLists /\ InitCalls /\ InitMaxLength /\ InitAntiSpam

NextLengths == \E event \in MessageEvents : CheckEventForSpam(event)

SpecMaxLength == InitLengths /\ [][NextLengths]_vars

\* ------------------------------------------------------------------------
\* Vocabulary of the properties
\* ------------------------------------------------------------------------
AllEvents == {StoredEvents[i] : i \in 1..Len(StoredEvents)} \cup LiveEvents
EventById(id) == CHOOSE e \in AllEvents : e.event_id = id
Lists == {"user_rules", "room_rules", "server_rules"}

\* the rule a record stands for
RuleFrom(e) ==
    ListRule(e.content.entity, e.content.recommendation, e.content.reason, e.type)

\* a record with all three fields missing none, of a type that has a list
LacksField(e) ==
    \/ e.content.entity = None
    \/ e.content.recommendation = None
    \/ e.content.reason = None
YieldsRule(e) ==
    /\ e.state_key # None
    /\ ~LacksField(e)
    /\ e.content.entity.t = "str"
    /\ e.type \in {RULE_USER, "org.matrix.mjolnir.rule.user", RULE_ROOM,
                   "org.matrix.mjolnir.rule.room", RULE_SERVER,
                   "org.matrix.mjolnir.rule.server"}

\* the ids of the events the rules of a room's lists were built from
OriginIds(room) ==
    UNION {{origin[room][l][i] : i \in 1..Len(origin[room][l])} : l \in Lists}

\* the rule of event e stands in list l of the room
HoldsRuleOf(room, l, e) ==
    \E i \in 1..Len(origin[room][l]) :
        /\ origin[room][l][i] = e.event_id
        /\ ban_list[room][l][i] = RuleFrom(e)

\* lines 48-87 over a whole sequence of events none of which raises
RECURSIVE Loop(_, _, _)
Loop(bl, events, with_event) ==
    IF events = <<>> THEN bl
    ELSE Loop(LoopBody(bl, Head(events), with_event), Tail(events), with_event)

\* full_rebuild(S) on any lists: lines 45-87 with no with_event
FullRebuild(snapshot) == Loop(EmptyLists, snapshot, None)

\* the run of build() has gone through all its events: its lists are final
Completed == Running /\ cur.pc = "loop" /\ cur.i > Len(cur.events)

\* the events the rules of one kind were built from, over all lists, in the
\* order the lists were made and the rules were built
RECURSIVE Sources(_, _)
Sources(ids, l) ==
    IF ids = <<>> THEN <<>>
    ELSE origin[Head(ids)][l] \o Sources(Tail(ids), l)

GlobMatches(e, victim) == RegexMatch(glob_to_regex(e.content.entity.v), victim)
IsBan(e) == e.content.recommendation.v \in {"m.ban", "org.matrix.mjolnir.ban"}

\* the first source whose glob matches the victim is a ban
FirstMatchIsBan(l, victim) ==
    LET src == Sources(rooms_to_lists, l)
    IN  \E i \in 1..Len(src) :
            /\ GlobMatches(EventById(src[i]), victim)
            /\ \A j \in 1..(i - 1) : ~GlobMatches(EventById(src[j]), victim)
            /\ IsBan(EventById(src[i]))

\* ------------------------------------------------------------------------
\* C1
\* ------------------------------------------------------------------------
\* C1: whenever a query can run (the reactor runs no rebuild), the three
\* lists of every room are those of its last completed rebuild (or empty,
\* before the first): never lists that are cleared or partly refilled.
C1_ReadersSeeCompleteLists ==
    cur = None => \A room \in DOMAIN ban_list : ban_list[room] = built[room]

\* ------------------------------------------------------------------------
\* C2
\* ------------------------------------------------------------------------
\* C2: a rebuild that fails, at the fetch or in the loop, leaves the three
\* lists of its room as they were before it started.
C2_FailedRebuildKeepsLists ==
    [][((\E k \in 1..MaxPending : FetchFails(k)) \/ IterateRaises)
          => ban_list' = IF Running THEN [ban_list EXCEPT ![cur.room_id] = cur.before]
                         ELSE ban_list]_vars

\* ------------------------------------------------------------------------
\* C3
\* ------------------------------------------------------------------------
\* the records of the snapshot that with_event replaces
Stale(snapshot, r) ==
    {snapshot[j] : j \in {j \in 1..Len(snapshot) :
        /\ snapshot[j].type = r.type
        /\ snapshot[j].state_key = r.state_key
        /\ snapshot[j].event_id # r.event_id}}

\* C3: when build(with_event = r) has gone through its events, no rule of
\* the room was built from a record of the snapshot with r's type and state
\* key and another event id, and the rule of r (when r yields one) is there.
C3_Supersede ==
    (Completed /\ cur.with_event # None) =>
        /\ \A st \in Stale(cur.snapshot, cur.with_event) :
              st.event_id \notin OriginIds(cur.room_id)
        /\ (Stale(cur.snapshot, cur.with_event) # {} /\ YieldsRule(cur.with_event))
              => HoldsRuleOf(cur.room_id, ListFor(cur.with_event.type), cur.with_event)

C3_Witness ==
    /\ Completed
    /\ cur.with_event = EvBanB
    /\ EvBanA \in Stale(cur.snapshot, cur.with_event)
    /\ HoldsRuleOf(RoomA, "user_rules", EvBanB)

\* ------------------------------------------------------------------------
\* C4
\* ------------------------------------------------------------------------
\* C4: once a record that yields a user rule has been routed, a query finds
\* its rule in the room's list even while its rebuild waits for the fetch.
C4_RoutedRuleInForceAtOnce ==
    cur = None =>
        \A k \in 1..Len(pending) :
            (pending[k].with_event # None /\ YieldsRule(pending[k].with_event))
                => HoldsRuleOf(pending[k].room_id,
                               ListFor(pending[k].with_event.type),
                               pending[k].with_event)

\* ------------------------------------------------------------------------
\* C5
\* ------------------------------------------------------------------------
\* C5: each query answers "banned" exactly when the first record, in the
\* order of the rooms and of construction within a room, whose glob matches
\* the candidate recommends a ban.
C5_FirstMatch ==
    /\ \A u \in Users : is_user_banned(u) = FirstMatchIsBan("user_rules", u)
    /\ \A r \in RoomIds : is_room_banned(r) = FirstMatchIsBan("room_rules", r)
    /\ \A u \in Users :
          is_server_banned(DomainOf(u)) = FirstMatchIsBan("server_rules", DomainOf(u))

\* an unknown action first, a ban second, both matching: not banned
C5_Witness ==
    /\ cur = None
    /\ Sources(rooms_to_lists, "user_rules") = <<"$3", "$1">>
    /\ GlobMatches(EvAllowA, "@a:x") /\ GlobMatches(EvBanA, "@a:x")
    /\ ~is_user_banned("@a:x")

\* ------------------------------------------------------------------------
\* C6
\* ------------------------------------------------------------------------
\* C6: when a rebuild has gone through its events, no record has given more
\* than one rule to a list.
C6_OneRulePerRecord ==
    Completed =>
        \A l \in Lists : \A i, j \in 1..Len(origin[cur.room_id][l]) :
            i # j => origin[cur.room_id][l][i] # origin[cur.room_id][l][j]

\* ------------------------------------------------------------------------
\* C7
\* ------------------------------------------------------------------------
\* C7: a full rebuild gives the lists of a full rebuild of the snapshot
\* without its records lacking entity, recommendation or reason, and the
\* iteration over such a record does not raise.
C7_MalformedDropped ==
    /\ (Completed /\ cur.with_event = None) =>
          ban_list[cur.room_id] =
              FullRebuild(SelectSeq(cur.snapshot, LAMBDA e : ~LacksField(e)))
    /\ (Running /\ cur.pc = "loop" /\ cur.i <= Len(cur.events)
          /\ LacksField(cur.events[cur.i]))
          => ~Raises(cur.events[cur.i], cur.with_event)

C7_Witness ==
    /\ Completed /\ cur.with_event = None
    /\ cur.snapshot = <<EvNoReason, EvRoom>>
    /\ origin[RoomA].room_rules = <<"$4">>
    /\ origin[RoomA].user_rules = <<>>

\* ------------------------------------------------------------------------
\* C8
\* ------------------------------------------------------------------------
\* C8: the lists of a room change only in a step of a rebuild of that room,
\* and a rebuild waiting for its fetch can go on whenever the reactor is
\* free, whatever became of the rebuilds of other rooms.
C8_RebuildsIsolated ==
    /\ [][\A room \in DOMAIN ban_list :
            ban_list'[room] # ban_list[room] => (Running /\ cur.room_id = room)]_vars
    /\ [](cur = None => \A k \in 1..Len(pending) : ENABLED Resume(k))

\* room A's lists have been cleared and are being refilled; room B's stand
C8_Witness ==
    /\ Running /\ cur.room_id = RoomA /\ cur.pc = "loop" /\ cur.i > 1
    /\ ban_list[RoomA] # EmptyLists
    /\ RoomB \in DOMAIN ban_list /\ ban_list[RoomB].user_rules # <<>>
    /\ ban_list[RoomB] = built[RoomB]

\* ------------------------------------------------------------------------
\* C9
\* ------------------------------------------------------------------------
\* C9: a full rebuild over snapshot S of lists that are those of a full
\* rebuild over S leaves them as they were.
C9_Idempotent ==
    (Completed /\ cur.with_event = None /\ cur.before = FullRebuild(cur.snapshot))
        => ban_list[cur.room_id] = cur.before

C9_Witness ==
    /\ Completed /\ cur.with_event = None
    /\ cur.before = FullRebuild(cur.snapshot)
    /\ Len(cur.before.user_rules) = 2
    /\ ban_list[cur.room_id] = cur.before

MadeRule == call # None /\ call.op = "ListRule" /\ call.entity.t = "str"

\* C11: for every spelling of the action and of the kind, ListRule on a
\* string entity succeeds; the rule's action is the ban value exactly for
\* the two ban spellings and None otherwise; its kind is the stable user,
\* room or server type exactly for the two spellings of that type and None
\* for a spelling of no known type; a rule whose action is None bans nobody.
C11_RuleConstructionTotal ==
    MadeRule =>
        /\ result # TypeError
        /\ result.action = IF call.action \in {"m.ban", "org.matrix.mjolnir.ban"}
                           THEN Str("m.ban") ELSE None
        /\ result.kind = Str("m.room.rule.user")
              <=> call.kind \in {"m.room.rule.user", "org.matrix.mjolnir.rule.user"}
        /\ result.kind = Str("m.room.rule.room")
              <=> call.kind \in {"m.room.rule.room", "org.matrix.mjolnir.rule.room"}
        /\ result.kind = Str("m.room.rule.server")
              <=> call.kind \in {"m.room.rule.server", "org.matrix.mjolnir.rule.server"}
        /\ call.kind \notin Types \ {"m.room.rule.unknown", "M.ROOM.RULE.USER",
                                      "m.room.message", ""}
              <=> result.kind = None
        /\ result.action = None => \A v \in Victims : ~FirstMatchBans(<<result>>, v)

\* a spelling that is no ban, with the legacy spelling of the user type, on
\* a glob that matches everybody
C11_Witness ==
    /\ MadeRule
    /\ call.entity = Str("*") /\ call.action = "M.BAN"
    /\ call.kind = "org.matrix.mjolnir.rule.user"
    /\ result.action = None /\ result.kind = Str(RULE_USER)
    /\ matches(result, "a")

\* ------------------------------------------------------------------------
\* C12
\* ------------------------------------------------------------------------
Matched == call # None /\ call.op = "match"

\* a glob that is one run of wildcards
OnlyWildcards(glob) ==
    glob # "" /\ \A i \in 1..Len(glob) : CharAt(glob, i) \in {"?", "*"}
QMarks(glob) == Cardinality({i \in 1..Len(glob) : CharAt(glob, i) = "?"})
HasStar(glob) == \E i \in 1..Len(glob) : CharAt(glob, i) = "*"

\* C12: the pattern of a run of wildcards with q "?" matches exactly the
\* strings of q characters or more when the run holds a "*", and exactly
\* the strings of q characters when it holds none, whatever the order and
\* the number of its "*".
C12_Collapsing ==
    (Matched /\ OnlyWildcards(call.glob)) =>
        result = IF HasStar(call.glob)
                 THEN Len(call.victim) >= QMarks(call.glob)
                 ELSE Len(call.victim) = QMarks(call.glob)

\* ------------------------------------------------------------------------
\* C13
\* ------------------------------------------------------------------------
\* C13: the pattern of the glob "*" matches every string, the empty string
\* and the strings with a line break among them.
C13_StarMatchesAll == (Matched /\ call.glob = "*") => result

\* ------------------------------------------------------------------------
\* C14
\* ------------------------------------------------------------------------
\* the list the rule of a record belongs in
PartitionOf(e) ==
    IF e.type \in {"m.room.rule.user", "org.matrix.mjolnir.rule.user"} THEN "user_rules"
    ELSE IF e.type \in {"m.room.rule.room", "org.matrix.mjolnir.rule.room"} THEN "room_rules"
    ELSE IF e.type \in {"m.room.rule.server", "org.matrix.mjolnir.rule.server"}
         THEN "server_rules"
    ELSE "none"

\* the sequence a rebuild goes through: the snapshot as delivered, then the
\* new record
Processed(snapshot, r) == IF r = None THEN snapshot ELSE Append(snapshot, r)

\* the records of that sequence that give a rule to list l, in its order
Contributors(snapshot, r, l) ==
    SelectSeq(Processed(snapshot, r),
              LAMBDA e : /\ YieldsRule(e)
                         /\ PartitionOf(e) = l
                         /\ ~(r # None /\ e \in Stale(snapshot, r)))

\* C14: when a rebuild has gone through its events, the rules of each list
\* stand in the order of their records in the snapshot, and the rule of the
\* new record of build(with_event) stands last in its list.
C14_OrderOfRecords ==
    Completed =>
        /\ \A l \in Lists :
              LET c == Contributors(cur.snapshot, cur.with_event, l)
              IN  /\ origin[cur.room_id][l] = [i \in 1..Len(c) |-> c[i].event_id]
                  /\ ban_list[cur.room_id][l] = [i \in 1..Len(c) |-> RuleFrom(c[i])]
        /\ (cur.with_event # None /\ YieldsRule(cur.with_event)) =>
              LET own == origin[cur.room_id][PartitionOf(cur.with_event)]
              IN  own # <<>> /\ own[Len(own)] = cur.with_event.event_id

\* the new record replaces the second record of the snapshot and its rule
\* stands behind the rule of the first, which has another state key
C14_Witness ==
    /\ Completed
    /\ cur.with_event = EvBanB
    /\ cur.snapshot = <<EvAllowA, EvBanA>>
    /\ origin[RoomA].user_rules = <<"$3", "$2">>

\* ------------------------------------------------------------------------
\* C15
\* ------------------------------------------------------------------------
\* the stable type of the rules of a list
KindOf(l) ==
    CASE l = "user_rules" -> Str("m.room.rule.user")
      [] l = "room_rules" -> Str("m.room.rule.room")
      [] l = "server_rules" -> Str("m.room.rule.server")

\* C15: every rule of user_rules has the user kind, every rule of
\* room_rules the room kind, every rule of server_rules the server kind,
\* whichever spelling its record's type had; no rule was built from a
\* record of another fetched type, and a type that is none of the user,
\* room and server spellings has no list.
C15_OwnKindOnly ==
    /\ \A room \in DOMAIN ban_list : \A l \in Lists :
          /\ \A i \in 1..Len(ban_list[room][l]) : ban_list[room][l][i].kind = KindOf(l)
          /\ \A i \in 1..Len(origin[room][l]) :
                PartitionOf(EventById(origin[room][l][i])) = l
    /\ \A t \in Types : ListFor(t) # "" =>
          t \in {"m.room.rule.user", "org.matrix.mjolnir.rule.user",
                 "m.room.rule.room", "org.matrix.mjolnir.rule.room",
                 "m.room.rule.server", "org.matrix.mjolnir.rule.server"}

\* a server rule of the legacy spelling and a registration email rule were
\* fetched: one rule, in server_rules
C15_Witness ==
    /\ Completed
    /\ cur.snapshot = <<EvServer, EvEmail>>
    /\ origin[RoomA] = [server_rules |-> <<"$5">>, user_rules |-> <<>>, room_rules |-> <<>>]
    /\ ban_list[RoomA].server_rules[1].kind = Str(RULE_SERVER)

\* ------------------------------------------------------------------------
\* C16
\* ------------------------------------------------------------------------
\* the lists of the room are those a completed rebuild left
Built(room) ==
    /\ cur = None
    /\ room \in DOMAIN ban_list
    /\ ban_list[room] = built[room]

\* C16: every rebuild whose fetch has returned leads to the lists of its
\* room being those of a completed rebuild.
C16_RebuildReachesBuilt ==
    \A room \in {RoomA, RoomB} : (Running /\ cur.room_id = room) ~> Built(room)

\* ------------------------------------------------------------------------
\* C17
\* ------------------------------------------------------------------------
\* r was handed over and no other record handed over has its type and
\* state key: r is the current record for them
Current(r) ==
    /\ r.event_id \in delivered
    /\ \A e \in LiveEvents :
          (e.event_id \in delivered /\ e.event_id # r.event_id)
              => ~(e.type = r.type /\ e.state_key = r.state_key)

InList(rule, list) == \E i \in 1..Len(list) : list[i] = rule

\* C17: when a rebuild has gone through its events, the rule of a current
\* record r that stood in the lists before the fetch of this rebuild
\* returned still stands there, and no rule stems from a record r replaced.
C17_FreshRuleSurvives ==
    Completed =>
        \A r \in LiveEvents :
            (/\ Current(r) /\ YieldsRule(r)
             /\ r.room_id = cur.room_id
             /\ InList(RuleFrom(r), cur.before[PartitionOf(r)]))
            => /\ HoldsRuleOf(cur.room_id, PartitionOf(r), r)
               /\ \A st \in Stale(cur.snapshot, r) :
                     st.event_id \notin OriginIds(cur.room_id)

\* ------------------------------------------------------------------------
\* C18
\* ------------------------------------------------------------------------
\* the records of the snapshot that r does not replace
Kept(snapshot, r) == SelectSeq(snapshot, LAMBDA e : e \notin Stale(snapshot, r))

\* C18: when build(with_event = r) has gone through its events, r lacking a
\* field and replacing a record of the snapshot, no rule stems from a
\* replaced record or from r, and the lists are those of a full rebuild of
\* the other records of the snapshot.
C18_RemovalBySuperseding ==
    (/\ Completed /\ cur.with_event # None
     /\ LacksField(cur.with_event)
     /\ Stale(cur.snapshot, cur.with_event) # {})
    => /\ \A st \in Stale(cur.snapshot, cur.with_event) :
             st.event_id \notin OriginIds(cur.room_id)
       /\ cur.with_event.event_id \notin OriginIds(cur.room_id)
       /\ ban_list[cur.room_id] = FullRebuild(Kept(cur.snapshot, cur.with_event))

\* emptied content for the state key of the user ban $1: the rule of $1 is
\* gone and the rule of $3 stays
C18_Witness ==
    /\ Completed
    /\ cur.with_event = EvRemoveA
    /\ cur.snapshot = <<EvAllowA, EvBanA>>
    /\ origin[RoomA].user_rules = <<"$3">>
    /\ ban_list[RoomA].user_rules = <<RuleFrom(EvAllowA)>>

\* ------------------------------------------------------------------------
\* C19
\* ------------------------------------------------------------------------
\* C19: an update that fails, at get_json or at any of the six assignments,
\* leaves the six lists of checks as they were when it started.
C19_UpdateAllOrNothing ==
    [][(GetJsonFails \/ AssignRaises) => code_checks' = update.before]_vars

\* ------------------------------------------------------------------------
\* C20
\* ------------------------------------------------------------------------
Checked == call # None /\ call.op = "check_event_for_spam"

\* C20: an event is spam exactly when a threshold is configured, its sender
\* is of this server or remote servers are limited too, its body is longer
\* than the threshold, and no rooms are configured or its room is one of
\* them; so nothing is spam without a threshold, and a body as long as the
\* threshold is not.
C20_SpamIffTooLong ==
    Checked =>
        /\ result <=>
              /\ threshold # None
              /\ call.event.sender \in {"@a:x"} \/ remote_servers
              /\ Len(BodyOf(call.event)) > threshold.n
              /\ rooms = {} \/ call.event.room_id \in rooms
        /\ threshold = None => ~result
        /\ (threshold # None /\ Len(BodyOf(call.event)) = threshold.n) => ~result

\* a local sender, no rooms configured, a body as long as the threshold
C20_Witness ==
    /\ Checked
    /\ threshold = Threshold(2) /\ rooms = {} /\ ~remote_servers
    /\ call.event.sender = "@a:x" /\ call.event.body = Str("aa")
    /\ result = FALSE
====
